---- MODULE Spec2Model ----
(***************************************************************************)
(* Model of ProcessEvent.log.py: the EventPattern forest (loadCsvFile,     *)
(* __init__, addSubPattern, findSubPatternWithId), the matcher            *)
(* (mainMatchEvent, matchEvent, addEvent), the report (printResults,      *)
(* __str__) and the run over the input files (myMain, mainLoop).           *)
(*                                                                         *)
(* An EventPattern object is a record of the sequence `nodes`; its index   *)
(* in `nodes` is its identity and is also its position in the CSV file     *)
(* (objects are created one per row, in row order).  Object references     *)
(* (_patterns, subPatterns, the value returned by the matcher) are indices *)
(* into `nodes`; the Python None reference is the index 0.                 *)
(***************************************************************************)
EXTENDS Integers, Sequences, FiniteSets, TLC

VARIABLES
    nodes,       \* every EventPattern object created so far, in creation order
    patterns,    \* EventPattern._patterns: the roots, a sequence of node indices
    typeFilter,  \* global typeFilter: <<>> for None, <<t>> for the integer t
    showDetail,  \* global showDetail
    pc,          \* position of mainLoop: "load", "match" or "done", or
                 \* "loadError" / "openError" once an exception has ended the run
    fed,         \* the events handed to mainMatchEvent so far, in order
    lastRet,     \* what the last call of mainMatchEvent returned (0 = None)
    report,      \* what printResults printed: one block of lines per root
    files,       \* the list `files' that myMain hands to mainLoop
    fileNo,      \* how many entries of files mainLoop has opened (the last
                 \* of them is the file being read)
    fedFile      \* for each element of fed, the entry of files it was read from

vars == <<nodes, patterns, typeFilter, showDetail, pc, fed, lastRet, report,
          files, fileNo, fedFile>>

(***************************************************************************)
(* Bounds of the model.                                                    *)
(***************************************************************************)
MaxDefs == 4      \* rows in the pattern CSV file
MaxEvents == 2    \* log lines that parse to an Event
MaxArgs == 2      \* file arguments on the command line

None == 0         \* the None reference (node indices start at 1)

(***************************************************************************)
(* Regular expressions.  A message is a sequence of characters.  A regex   *)
(* of the catalogue is a sequence of atoms; an atom matches one character  *)
(* (ch = "." matches any), may be a named group (name # <<>>) and may be   *)
(* optional (the `?' quantifier).  Group names are sequences of characters *)
(* so that the first character of a name can be read, as __str__ does.    *)
(***************************************************************************)
Atom(ch, name, opt) == [ch |-> ch, name |-> name, opt |-> opt]

RxA == [pattern |-> "a",
        atoms   |-> << Atom("a", <<>>, FALSE) >>]

RxHV == [pattern |-> "(?P<_h>.)(?P<v>b)?",
         atoms   |-> << Atom(".", <<"_", "h">>, FALSE),
                        Atom("b", <<"v">>, TRUE) >>]

RegExs == {RxA, RxHV}

Names == {"A", "B"}
ParentIds == {""} \cup Names

Messages == { <<"a", "b">>, <<"b">> }
Types == {0, 1}
Events == [type : Types, message : Messages]

PyNone == "<None>"     \* the value None of a group that did not participate

\* regEx.groupindex: the named groups in the order they are written
RECURSIVE groupindexFrom(_, _)
groupindexFrom(atoms, k) ==
    IF k > Len(atoms) THEN <<>>
    ELSE IF atoms[k].name # <<>>
         THEN <<atoms[k].name>> \o groupindexFrom(atoms, k + 1)
         ELSE groupindexFrom(atoms, k + 1)

groupindex(rx) == groupindexFrom(rx.atoms, 1)

\* regEx.match(message): anchored at the start, need not consume the whole
\* message.  The result is [ok, groupdict]; groupdict maps every group name
\* to the captured substring or to PyNone.
RECURSIVE reMatchFrom(_, _, _, _, _)
reMatchFrom(atoms, k, msg, pos, gd) ==
    IF k > Len(atoms) THEN [ok |-> TRUE, groupdict |-> gd]
    ELSE LET a == atoms[k]
             hit == pos <= Len(msg) /\ (a.ch = "." \/ a.ch = msg[pos])
         IN  IF hit
             THEN reMatchFrom(atoms, k + 1, msg, pos + 1,
                              IF a.name # <<>> THEN gd \cup {<<a.name, msg[pos]>>} ELSE gd)
             ELSE IF a.opt
                  THEN reMatchFrom(atoms, k + 1, msg, pos,
                                   IF a.name # <<>> THEN gd \cup {<<a.name, PyNone>>} ELSE gd)
                  ELSE [ok |-> FALSE, groupdict |-> {}]

reMatch(rx, msg) == reMatchFrom(rx.atoms, 1, msg, 1, {})

(***************************************************************************)
(* Tree assembly.                                                          *)
(***************************************************************************)
\* Variant of findSubPatternWithId that looks only at the direct children.
findDirectSub(ns, pattern, id) ==
    LET subs == ns[pattern].subPatterns IN
    IF \E k \in DOMAIN subs : ns[subs[k]].patternId = id
    THEN subs[CHOOSE k \in DOMAIN subs :
                 /\ ns[subs[k]].patternId = id
                 /\ \A j \in 1..(k - 1) : ns[subs[j]].patternId # id]
    ELSE None

\* findSubPatternWithId(pattern, id): depth-first search below `pattern';
\* findInSubs is its for loop, from the k-th element of pattern.subPatterns.
RECURSIVE findSubPatternWithId(_, _, _), findInSubs(_, _, _, _)
findInSubs(ns, pattern, k, id) ==
    LET subs == ns[pattern].subPatterns IN
    IF k > Len(subs) THEN None
    ELSE LET p == subs[k] IN
         IF ns[p].patternId = id THEN p
         ELSE LET sp == findSubPatternWithId(ns, p, id) IN
              IF sp # None THEN sp ELSE findInSubs(ns, pattern, k + 1, id)

findSubPatternWithId(ns, pattern, id) == findInSubs(ns, pattern, 1, id)

\* p.subPatterns.append(pattern)
appendSub(ns, p, pattern) ==
    [ns EXCEPT ![p].subPatterns = Append(@, pattern)]

\* addSubPattern(pattern): the for loop over EventPattern._patterns from the
\* k-th root on.  The result is [ret, nodes].
RECURSIVE addSubFrom(_, _, _, _)
addSubFrom(ns, pats, k, pattern) ==
    IF k > Len(pats) THEN [ret |-> FALSE, nodes |-> ns]
    ELSE LET p == pats[k] IN
         IF ns[pattern].parentId = ns[p].patternId
         THEN [ret |-> TRUE, nodes |-> appendSub(ns, p, pattern)]
         ELSE LET sp == findSubPatternWithId(ns, p, ns[pattern].parentId) IN
              IF sp # None
              THEN [ret |-> TRUE, nodes |-> appendSub(ns, sp, pattern)]
              ELSE addSubFrom(ns, pats, k + 1, pattern)

addSubPattern(ns, pats, pattern) == addSubFrom(ns, pats, 1, pattern)

\* The object __init__ builds before it is placed in the forest.
newPattern(name, regEx, parent) ==
    [patternId   |-> name,
     name        |-> name,
     regEx       |-> regEx,
     groupNames  |-> groupindex(regEx),
     groupValues |-> [i \in 1..Len(groupindex(regEx)) |-> {}],
     parentId    |-> parent,
     events      |-> <<>>,
     subPatterns |-> <<>>]

\* Variant of __init__ that appends every new object to _patterns, also the
\* one it has placed under a parent.
initAlwaysRoot(ns, pats, name, regEx, parent) ==
    LET self == Len(ns) + 1
        ns1  == Append(ns, newPattern(name, regEx, parent))
    IN  IF parent # ""
        THEN [nodes |-> addSubPattern(ns1, pats, self).nodes,
              patterns |-> Append(pats, self)]
        ELSE [nodes |-> ns1, patterns |-> Append(pats, self)]

\* EventPattern(name, regEx, parent): the result is [nodes, patterns].
init(ns, pats, name, regEx, parent) ==
    LET self == Len(ns) + 1
        ns1  == Append(ns, newPattern(name, regEx, parent))
    IN  IF parent # ""
        THEN [nodes |-> addSubPattern(ns1, pats, self).nodes, patterns |-> pats]
        ELSE [nodes |-> ns1, patterns |-> Append(pats, self)]

(***************************************************************************)
(* Matching.  The operators that record an event return [ret, nodes]: the  *)
(* reference the Python function returns and the objects after the call.   *)
(***************************************************************************)
\* self.groupNames.index(ng): the first position of ng (0-based, as in Python)
index(names, ng) ==
    (CHOOSE i \in 1..Len(names) :
        /\ names[i] = ng
        /\ \A j \in 1..(i - 1) : names[j] # ng) - 1

\* Variant of groupValue that stores the value of the group as it is.
groupValueRaw(value) == value

\* the value addEvent stores for a group
groupValue(value) == IF value = PyNone THEN "-None-" ELSE value

\* Variant of addEvent that stores nothing for a group that captured nothing
\* (`if value != None: add') instead of storing the sentinel.
addEventSkipNone(ns, self, event, match) ==
    LET names == ns[self].groupNames
        added(i) == {g[2] : g \in {h \in match.groupdict :
                                      index(names, h[1]) = i - 1 /\ h[2] # PyNone}}
    IN  [ns EXCEPT ![self].events = Append(@, event),
                   ![self].groupValues = [i \in DOMAIN @ |-> @[i] \cup added(i)]]

\* Variant of addEvent that assigns the captured value to the group
\* (groupValues[index] = {value}) instead of adding it to the set.
addEventAssign(ns, self, event, match) ==
    LET names == ns[self].groupNames
        added(i) == {groupValue(g[2]) : g \in {h \in match.groupdict : index(names, h[1]) = i - 1}}
    IN  [ns EXCEPT ![self].events = Append(@, event),
                   ![self].groupValues = [i \in DOMAIN @ |-> added(i)]]

\* self.addEvent(event, match)
addEvent(ns, self, event, match) ==
    LET names == ns[self].groupNames
        added(i) == {groupValue(g[2]) : g \in {h \in match.groupdict : index(names, h[1]) = i - 1}}
    IN  [ns EXCEPT ![self].events = Append(@, event),
                   ![self].groupValues = [i \in DOMAIN @ |-> @[i] \cup added(i)]]

\* Variant of matchEvent that records at self without trying the children.
matchEventFlat(ns, self, event) ==
    LET match == reMatch(ns[self].regEx, event.message) IN
    IF ~match.ok
    THEN [ret |-> None, nodes |-> ns]
    ELSE [ret |-> self, nodes |-> addEvent(ns, self, event, match)]

\* matchEvent(self, event); matchSubs is its for loop over self.subPatterns
\* from the k-th child on, followed by the code after the loop.
RECURSIVE matchEvent(_, _, _), matchSubs(_, _, _, _, _)
matchSubs(ns, self, k, event, match) ==
    LET subs == ns[self].subPatterns IN
    IF k > Len(subs)
    THEN [ret |-> self, nodes |-> addEvent(ns, self, event, match)]
    ELSE LET p == subs[k]
             r == matchEvent(ns, p, event)
         IN  IF r.ret # None
             THEN [ret |-> p, nodes |-> r.nodes]
             ELSE matchSubs(r.nodes, self, k + 1, event, match)

\* Variant of matchEvent that goes on to the sub-patterns and to addEvent
\* whether or not its own regex matched.
matchEventNoTest(ns, self, event) ==
    matchSubs(ns, self, 1, event, reMatch(ns[self].regEx, event.message))

matchEvent(ns, self, event) ==
    LET match == reMatch(ns[self].regEx, event.message) IN
    IF ~match.ok
    THEN [ret |-> None, nodes |-> ns]
    ELSE matchSubs(ns, self, 1, event, match)

\* Variant of typeRejected that tests the truth value of typeFilter
\* (`if typeFilter and ...'), which is false for the filter 0.
typeRejectedTruthy(tf, event) == tf # <<>> /\ tf[1] # 0 /\ event.type # tf[1]

\* typeFilter != None and event.type != typeFilter
typeRejected(tf, event) == tf # <<>> /\ event.type # tf[1]

\* Variant of mainMatchFrom without `return sp': the root records the event
\* although a descendant has taken it.
RECURSIVE mainMatchFallThrough(_, _, _, _)
mainMatchFallThrough(ns, pats, k, event) ==
    IF k > Len(pats) THEN [ret |-> None, nodes |-> ns]
    ELSE LET p == pats[k]
             match == reMatch(ns[p].regEx, event.message)
         IN  IF ~match.ok
             THEN mainMatchFallThrough(ns, pats, k + 1, event)
             ELSE IF Len(ns[p].subPatterns) > 0
                  THEN LET r == matchEvent(ns, p, event) IN
                       [ret |-> p, nodes |-> addEvent(r.nodes, p, event, match)]
                  ELSE [ret |-> p, nodes |-> addEvent(ns, p, event, match)]

\* Variant of mainMatchFrom that visits the roots from the last to the first.
RECURSIVE mainMatchReversed(_, _, _, _)
mainMatchReversed(ns, pats, k, event) ==
    IF k > Len(pats) THEN [ret |-> None, nodes |-> ns]
    ELSE LET p == pats[Len(pats) + 1 - k]
             match == reMatch(ns[p].regEx, event.message)
         IN  IF ~match.ok
             THEN mainMatchReversed(ns, pats, k + 1, event)
             ELSE IF Len(ns[p].subPatterns) > 0
                  THEN LET r == matchEvent(ns, p, event) IN
                       IF r.ret # None
                       THEN r
                       ELSE [ret |-> p, nodes |-> addEvent(r.nodes, p, event, match)]
                  ELSE [ret |-> p, nodes |-> addEvent(ns, p, event, match)]

\* Variant of mainMatchFrom with `break' for `continue': the loop ends at the
\* first root that does not match.
mainMatchBreak(ns, pats, k, event) ==
    IF k > Len(pats) THEN [ret |-> None, nodes |-> ns]
    ELSE LET p == pats[k]
             match == reMatch(ns[p].regEx, event.message)
         IN  IF ~match.ok
             THEN [ret |-> None, nodes |-> ns]
             ELSE IF Len(ns[p].subPatterns) > 0
                  THEN LET r == matchEvent(ns, p, event) IN
                       IF r.ret # None
                       THEN r
                       ELSE [ret |-> p, nodes |-> addEvent(r.nodes, p, event, match)]
                  ELSE [ret |-> p, nodes |-> addEvent(ns, p, event, match)]

\* mainMatchEvent(event): the for loop over EventPattern._patterns from the
\* k-th root on.
RECURSIVE mainMatchFrom(_, _, _, _)
mainMatchFrom(ns, pats, k, event) ==
    IF k > Len(pats) THEN [ret |-> None, nodes |-> ns]
    ELSE LET p == pats[k]
             match == reMatch(ns[p].regEx, event.message)
         IN  IF ~match.ok
             THEN mainMatchFrom(ns, pats, k + 1, event)
             ELSE IF Len(ns[p].subPatterns) > 0
                  THEN LET r == matchEvent(ns, p, event) IN
                       IF r.ret # None
                       THEN r
                       ELSE [ret |-> p, nodes |-> addEvent(r.nodes, p, event, match)]
                  ELSE [ret |-> p, nodes |-> addEvent(ns, p, event, match)]

mainMatchEvent(ns, pats, tf, event) ==
    IF typeRejected(tf, event)
    THEN [ret |-> None, nodes |-> ns]
    ELSE mainMatchFrom(ns, pats, 1, event)

(***************************************************************************)
(* Reporting.  The text __str__ returns is a sequence of lines.  A line    *)
(* carries the fields the format string prints and, for reference, the     *)
(* object whose __str__ wrote it (`node').  ', '.join of a set of values   *)
(* is modelled by the set of the values joined.                            *)
(***************************************************************************)
\* Variant of hidden that ignores showDetail.
hiddenAlways(n, detail) == n[1] = "_"

\* n[0] == '_' and not showDetail
hidden(n, detail) == n[1] = "_" /\ ~detail

\* the loop `for n in self.groupNames' from the k-th name on, with the
\* counter i (0-based) the loop keeps
RECURSIVE groupLines(_, _, _, _, _)
groupLines(ns, self, k, i, detail) ==
    LET names == ns[self].groupNames IN
    IF k > Len(names) THEN <<>>
    ELSE LET n == names[k] IN
         IF hidden(n, detail)
         THEN groupLines(ns, self, k + 1, i, detail)
         ELSE LET vals == ns[self].groupValues[i + 1] IN
              << [kind |-> "group", node |-> self, n |-> n,
                  numValues |-> Cardinality(vals), values |-> vals] >>
              \o groupLines(ns, self, k + 1, i + 1, detail)

\* __str__(self); strSubs is its loop over self.subPatterns
RECURSIVE str(_, _, _), strSubs(_, _, _, _)
strSubs(ns, self, k, detail) ==
    IF k > Len(ns[self].subPatterns) THEN <<>>
    ELSE str(ns, ns[self].subPatterns[k], detail) \o strSubs(ns, self, k + 1, detail)

\* Variant of __str__ that leaves out every pattern that did not occur,
\* whether or not it has sub-patterns.
strHideParents(ns, self, detail) ==
    LET occurances == Len(ns[self].events) IN
    IF occurances = 0 /\ ~detail
    THEN <<>>
    ELSE << [kind |-> "pattern", node |-> self, name |-> ns[self].name,
             occurances |-> occurances, pattern |-> ns[self].regEx.pattern] >>
         \o groupLines(ns, self, 1, 0, detail)
         \o strSubs(ns, self, 1, detail)

str(ns, self, detail) ==
    LET occurances == Len(ns[self].events) IN
    IF occurances = 0 /\ ~detail /\ Len(ns[self].subPatterns) = 0
    THEN <<>>
    ELSE << [kind |-> "pattern", node |-> self, name |-> ns[self].name,
             occurances |-> occurances, pattern |-> ns[self].regEx.pattern] >>
         \o groupLines(ns, self, 1, 0, detail)
         \o strSubs(ns, self, 1, detail)

\* printResults(): one print(p) per root
printResults(ns, pats, detail) ==
    [k \in 1..Len(pats) |-> str(ns, pats[k], detail)]

(***************************************************************************)
(* The command line and the input files.  An entry of the list `files' is  *)
(* either a path (a Python str) or a list of paths; both are records with  *)
(* the same fields, list telling which of the two the entry is.            *)
(***************************************************************************)
\* the log files of the working directory, as the operating system lists them
DiskFiles == <<"a.log", "events.log">>

\* the file arguments of the catalogue: a file that exists, one that does
\* not, and a wildcard
FileArgs == {"a.log", "none.log", "*.log"}

\* the command lines: the file arguments of argv[1:], in order
ArgLists == UNION {[1..n -> FileArgs] : n \in 0..MaxArgs}

\* arg.find('*') >= 0
HasStar(arg) == arg = "*.log"

\* glob.glob(arg) for the wildcard of the catalogue: a list of paths
glob(arg) == DiskFiles

PathEntry(name) == [list |-> FALSE, name |-> name, names |-> <<>>]
ListEntry(names) == [list |-> TRUE, name |-> "", names |-> names]

\* myMain's loop over the arguments from the k-th on: what it appends to files
RECURSIVE myMainFiles(_, _)
myMainFiles(argv, k) ==
    IF k > Len(argv) THEN <<>>
    ELSE << IF ~HasStar(argv[k])
            THEN PathEntry(argv[k])
            ELSE ListEntry(glob(argv[k])) >>
         \o myMainFiles(argv, k + 1)

\* myMain(argv): the list it calls mainLoop with
myMain(argv) ==
    LET fs == myMainFiles(argv, 1) IN
    IF Len(fs) < 1 THEN << PathEntry("events.log") >> ELSE fs

\* open(fileName, "r") returns a file (TRUE) or raises (FALSE): TypeError
\* for a fileName that is a list, FileNotFoundError for a missing file
open(fileName) ==
    /\ ~fileName.list
    /\ \E i \in DOMAIN DiskFiles : DiskFiles[i] = fileName.name

\* Variant of nextFile that passes over an entry it cannot open.
nextFileSkip(fs, k) == [pc |-> "match", fileNo |-> k + 1]

\* mainLoop's `for fileName in files' after k entries: the next entry is
\* opened, or the exception of open ends the run
nextFile(fs, k) ==
    IF open(fs[k + 1])
    THEN [pc |-> "match", fileNo |-> k + 1]
    ELSE [pc |-> "openError", fileNo |-> k]

(***************************************************************************)
(* Vocabulary of the properties: the forest as a structure, and the walk   *)
(* the specification describes.  None of it is used by the actions.        *)
(***************************************************************************)
Range(seq) == {seq[i] : i \in DOMAIN seq}

RECURSIVE Preorder(_, _), PreorderSubs(_, _, _)
PreorderSubs(ns, n, k) ==
    IF k > Len(ns[n].subPatterns) THEN <<>>
    ELSE Preorder(ns, ns[n].subPatterns[k]) \o PreorderSubs(ns, n, k + 1)

Preorder(ns, n) == <<n>> \o PreorderSubs(ns, n, 1)

RECURSIVE ForestFrom(_, _, _)
ForestFrom(ns, pats, k) ==
    IF k > Len(pats) THEN <<>>
    ELSE Preorder(ns, pats[k]) \o ForestFrom(ns, pats, k + 1)

\* the nodes reachable from the roots, in depth-first pre-order
ForestSeq == ForestFrom(nodes, patterns, 1)
Forest == Range(ForestSeq)
Subtree(n) == Range(Preorder(nodes, n))

\* the list n is an element of: the roots, or its parent's children
ParentOf(n) ==
    IF \E p \in Forest : n \in Range(nodes[p].subPatterns)
    THEN CHOOSE p \in Forest : n \in Range(nodes[p].subPatterns)
    ELSE None

SiblingLists == {patterns} \cup {nodes[p].subPatterns : p \in Forest}

Matches(n, msg) == reMatch(nodes[n].regEx, msg).ok

\* the first element of the list whose regex matches, None if there is none
FirstMatching(list, msg) ==
    IF \E i \in DOMAIN list : Matches(list[i], msg)
    THEN list[CHOOSE i \in DOMAIN list :
                 /\ Matches(list[i], msg)
                 /\ \A j \in 1..(i - 1) : ~Matches(list[j], msg)]
    ELSE None

\* the reference walk: the first matching root, then the first matching
\* child, as long as there is one
RECURSIVE Descend(_, _)
Descend(n, msg) ==
    LET c == FirstMatching(nodes[n].subPatterns, msg) IN
    IF c = None THEN n ELSE Descend(c, msg)

RefWalk(msg) ==
    LET r == FirstMatching(patterns, msg) IN
    IF r = None THEN None ELSE Descend(r, msg)

PassesFilter(e) == typeFilter = <<>> \/ e.type = typeFilter[1]

Selected(e) == IF PassesFilter(e) THEN RefWalk(e.message) ELSE None

matchCount(n) == Len(nodes[n].events)

RECURSIVE SumCounts(_, _)
SumCounts(ns, k) ==
    IF k > Len(ns) THEN 0 ELSE Len(ns[k].events) + SumCounts(ns, k + 1)

\* the sum of matchCount over every object created
TotalCount(ns) == SumCounts(ns, 1)

RECURSIVE SumOver(_, _)
SumOver(seq, k) ==
    IF k > Len(seq) THEN 0 ELSE matchCount(seq[k]) + SumOver(seq, k + 1)

\* the sum of matchCount over the nodes reachable from the roots
ForestCount == SumOver(ForestSeq, 1)

\* the step is a call of mainMatchEvent with the event LastFed'
LineStep == Len(fed') = Len(fed) + 1
LastFed == fed[Len(fed)]

(***************************************************************************)
(* C1: for every node, matchCount equals the number of fed events that     *)
(* passed the type filter and for which the node is the one the reference  *)
(* walk selects (first matching root, then first matching child, down to   *)
(* the node none of whose children matches).                               *)
(***************************************************************************)
C1_CountIsReferenceWalk ==
    \A n \in DOMAIN nodes :
        matchCount(n) = Cardinality({i \in DOMAIN fed : Selected(fed[i]) = n})

\* parent and child both match a fed event, which is counted at the child
\* and not at the parent
C1_Witness ==
    \E p \in Forest : \E c \in Range(nodes[p].subPatterns) : \E i \in DOMAIN fed :
        /\ PassesFilter(fed[i])
        /\ Matches(p, fed[i].message) /\ Matches(c, fed[i].message)
        /\ Selected(fed[i]) = c
        /\ matchCount(c) = 1 /\ matchCount(p) = 0

(***************************************************************************)
(* C2: one call of mainMatchEvent raises the sum of matchCount over all    *)
(* nodes by at most 1 and lowers no node's matchCount: an event is never   *)
(* recorded at two nodes, nor twice at one node.                           *)
(***************************************************************************)
C2_NoDoubleCounting ==
    [][ /\ TotalCount(nodes') <= TotalCount(nodes) + 1
        /\ \A n \in DOMAIN nodes : Len(nodes'[n].events) >= Len(nodes[n].events) ]_vars

\* a root that has children, none of them matching, took an event itself,
\* and it is the only record of that event
C2_Witness ==
    \E k \in DOMAIN patterns :
        LET r == patterns[k] IN
        /\ Len(nodes[r].subPatterns) > 0
        /\ Len(fed) = 1
        /\ PassesFilter(fed[1])
        /\ Selected(fed[1]) = r
        /\ FirstMatching(nodes[r].subPatterns, fed[1].message) = None
        /\ matchCount(r) = 1
        /\ TotalCount(nodes) = 1

(***************************************************************************)
(* C3.  A node is on the walk of a message when it matches, no sibling     *)
(* declared before it matches, and its parent (if any) is on the walk:     *)
(* the nodes on the walk are the first matching root, its first matching   *)
(* child, and so on.                                                       *)
(***************************************************************************)
RECURSIVE WalkBelow(_, _)
WalkBelow(list, msg) ==
    LET c == FirstMatching(list, msg) IN
    IF c = None THEN {} ELSE {c} \cup WalkBelow(nodes[c].subPatterns, msg)

OnWalk(n, msg) == n \in WalkBelow(patterns, msg)

RECURSIVE AncestorsMatch(_, _)
AncestorsMatch(n, msg) ==
    ParentOf(n) # None =>
        /\ Matches(ParentOf(n), msg)
        /\ AncestorsMatch(ParentOf(n), msg)

RecordedIn(e, set) == \E n \in set : e \in Range(nodes[n].events)

(***************************************************************************)
(* C3 as stated: for every fed event and any two siblings (or roots) that  *)
(* both match it, where every ancestor matches and no sibling declared     *)
(* before both matches, the event is recorded at the earlier one or in its *)
(* subtree and never at the later one or in its subtree.  (Read in the     *)
(* claim's favour: only events that pass the type filter are considered.)  *)
(***************************************************************************)
C3_FirstMatchWinsAsStated ==
    \A i \in DOMAIN fed : \A list \in SiblingLists : \A a, b \in DOMAIN list :
        LET e == fed[i] IN
        ( /\ a < b
          /\ PassesFilter(e)
          /\ FirstMatching(list, e.message) = list[a]
          /\ Matches(list[b], e.message)
          /\ AncestorsMatch(list[a], e.message) )
        => /\ RecordedIn(e, Subtree(list[a]))
           /\ ~RecordedIn(e, Subtree(list[b]))

(***************************************************************************)
(* C3 as amended: for every fed event that passes the type filter and any  *)
(* two siblings (or roots) that both match it, where no sibling declared   *)
(* before both matches and every ancestor matches and is itself the first  *)
(* of its siblings to match, the event is recorded at the earlier one or   *)
(* in its subtree and never at the later one or in its subtree.            *)
(***************************************************************************)
C3_FirstMatchWins ==
    \A i \in DOMAIN fed :
        LET e == fed[i]
            walk == WalkBelow(patterns, e.message)
        IN  PassesFilter(e) =>
            \A list \in {patterns} \cup {nodes[p].subPatterns : p \in walk} :
                \A a, b \in DOMAIN list :
                    ( /\ a < b
                      /\ list[a] \in walk
                      /\ Matches(list[b], e.message) )
                    => /\ RecordedIn(e, Subtree(list[a]))
                       /\ ~RecordedIn(e, Subtree(list[b]))

\* two children of one parent both match a message that was fed twice, and
\* both times it went to the earlier child
C3_Witness ==
    \E p \in Forest :
        LET list == nodes[p].subPatterns IN
        /\ Len(list) >= 2
        /\ Len(fed) = 2 /\ fed[1] = fed[2]
        /\ PassesFilter(fed[1])
        /\ OnWalk(p, fed[1].message)
        /\ Matches(list[1], fed[1].message)
        /\ Matches(list[2], fed[1].message)
        /\ matchCount(list[1]) = 2
        /\ matchCount(list[2]) = 0

(***************************************************************************)
(* C4: the sum of matchCount over the nodes reachable from the roots is    *)
(* the number of fed events that passed the type filter and match at least *)
(* one root; a call of mainMatchEvent with an event that matches no root   *)
(* changes no object.                                                      *)
(***************************************************************************)
MatchesSomeRoot(e) == FirstMatching(patterns, e.message) # None

C4_Conservation ==
    [][ /\ (ForestCount =
              Cardinality({i \in DOMAIN fed :
                              PassesFilter(fed[i]) /\ MatchesSomeRoot(fed[i])}))'
        /\ (LineStep /\ ~MatchesSomeRoot(LastFed)')
              => (nodes' = nodes /\ lastRet' = None) ]_vars

\* with no type filter, one event was recorded and one matched no root and
\* was dropped
C4_Witness ==
    /\ typeFilter = <<>>
    /\ Len(fed) = 2
    /\ MatchesSomeRoot(fed[1]) /\ ~MatchesSomeRoot(fed[2])
    /\ ForestCount = 1
    /\ lastRet = None

(***************************************************************************)
(* C5: a call of mainMatchEvent with typeFilter set and an event of        *)
(* another type returns None and changes no object; with typeFilter unset  *)
(* an event whose message matches a root is recorded whatever its type.    *)
(***************************************************************************)
C5_TypeFilter ==
    [][ LineStep =>
          LET e == LastFed' IN
          /\ (typeFilter # <<>> /\ e.type # typeFilter[1])
                => (nodes' = nodes /\ lastRet' = None)
          /\ (typeFilter = <<>> /\ MatchesSomeRoot(e))
                => (lastRet' # None /\ TotalCount(nodes') = TotalCount(nodes) + 1) ]_vars

\* the filter is set and has rejected an event whose message matches a root
C5_Witness ==
    /\ typeFilter # <<>>
    /\ Len(fed) >= 1
    /\ fed[1].type # typeFilter[1]
    /\ MatchesSomeRoot(fed[1])
    /\ TotalCount(nodes) = 0
    /\ lastRet = None


(***************************************************************************)
(* Tree assembly.  Objects are numbered in load order, children are only   *)
(* ever appended and a parent is older than its children, so the forest as *)
(* it was when object y was loaded is the present forest restricted to the *)
(* objects older than y, in the same depth-first pre-order.                *)
(***************************************************************************)
kids(n) == nodes[n].subPatterns

\* the nodes that were in the forest when y was loaded and carry the id y
\* names as its parent, in depth-first pre-order
Candidates(y) ==
    LET T(n) == n < y /\ nodes[n].patternId = nodes[y].parentId
    IN  SelectSeq(ForestSeq, T)

\* the objects in whose children list y occurs
Holders(y) == {p \in DOMAIN nodes : y \in Range(kids(p))}

Increasing(seq) == \A i, j \in DOMAIN seq : i < j => seq[i] < seq[j]

RECURSIVE RootRows(_)
RootRows(k) ==
    IF k > Len(nodes) THEN <<>>
    ELSE (IF nodes[k].parentId = "" THEN <<k>> ELSE <<>>) \o RootRows(k + 1)

(***************************************************************************)
(* C6: the roots are the definitions with an empty parent id, in load      *)
(* order; a definition whose parent id is carried by a node of the forest  *)
(* when it is loaded is a child of the first such node in depth-first      *)
(* pre-order and of no other; every children list is in load order (each   *)
(* child was appended last); every child's parentId is its parent's id.    *)
(***************************************************************************)
C6_TreeAssembly ==
    /\ patterns = RootRows(1)
    /\ \A p \in DOMAIN nodes : Increasing(kids(p))
    /\ \A y \in DOMAIN nodes :
          (nodes[y].parentId # "" /\ Candidates(y) # <<>>)
             => Holders(y) = {Candidates(y)[1]}
    /\ \A p \in DOMAIN nodes : \A y \in Range(kids(p)) :
          nodes[y].parentId = nodes[p].patternId

\* a definition was attached below a grandchild of a root (its parent was
\* found at depth 3), and some node has two children
C6_Witness ==
    /\ \E y \in Forest :
          /\ ParentOf(y) # None
          /\ ParentOf(ParentOf(y)) # None
          /\ ParentOf(ParentOf(ParentOf(y))) # None
    /\ pc = "match"

(***************************************************************************)
(* C7 as stated: once the configuration is loaded, every definition whose  *)
(* parent id is the id of another definition of the configuration is a     *)
(* child of a node with that id, whatever the order of the definitions.    *)
(* (Read in the claim's favour: only parents that are themselves in the    *)
(* forest are considered.)                                                 *)
(***************************************************************************)
C7_LoadOrderIndependent ==
    pc # "load" =>
        \A y \in DOMAIN nodes :
            (\E x \in Forest : x # y /\ nodes[x].patternId = nodes[y].parentId)
               => \E x \in Holders(y) : nodes[x].patternId = nodes[y].parentId

(***************************************************************************)
(* C8.  A definition is unresolved when its parent id is not empty and no  *)
(* node of the forest carries that id when the definition is loaded.       *)
(***************************************************************************)
Unresolved(y) == nodes[y].parentId # "" /\ Candidates(y) = <<>>

InReport(n) ==
    \E k \in DOMAIN report : \E i \in DOMAIN report[k] : report[k][i].node = n

Disabled(n) ==
    /\ n \notin Forest
    /\ matchCount(n) = 0
    /\ lastRet # n
    /\ ~InReport(n)

(***************************************************************************)
(* C8 as stated: an unresolved definition, and every definition loaded     *)
(* later that names the unresolved definition's id as its parent, is not   *)
(* in the forest, has matchCount 0, is never returned by the matcher and   *)
(* never appears in the report.                                            *)
(***************************************************************************)
C8_UnresolvedDisabled ==
    \A y \in DOMAIN nodes :
        Unresolved(y) =>
            /\ Disabled(y)
            /\ \A z \in DOMAIN nodes :
                  (z > y /\ nodes[z].parentId = nodes[y].patternId) => Disabled(z)

(***************************************************************************)
(* What holds of C8 whatever the ids: loading an unresolved definition     *)
(* changes neither the roots nor any older object; the definition is then  *)
(* disabled for good and nothing is ever attached below it.                *)
(***************************************************************************)
UnresolvedDropped ==
    [][ /\ (Len(nodes') = Len(nodes) + 1 /\ Unresolved(Len(nodes))')
            => /\ patterns' = patterns
               /\ \A n \in DOMAIN nodes : nodes'[n] = nodes[n]
        /\ (\A y \in DOMAIN nodes :
               Unresolved(y) => (Disabled(y) /\ kids(y) = <<>>))' ]_vars

(***************************************************************************)
(* Report lines.                                                           *)
(***************************************************************************)
\* the value set of the group named g on node n
ValueSet(n, g) == nodes[n].groupValues[index(nodes[n].groupNames, g) + 1]

\* node n has a header line in the report
Emitted(n) ==
    \E k \in DOMAIN report : \E i \in DOMAIN report[k] :
        report[k][i].kind = "pattern" /\ report[k][i].node = n

\* node n has a group line labelled g in the report
HasLine(n, g) ==
    \E k \in DOMAIN report : \E i \in DOMAIN report[k] :
        /\ report[k][i].kind = "group"
        /\ report[k][i].node = n
        /\ report[k][i].n = g

(***************************************************************************)
(* C9 as stated: every group line of the report labelled n shows the       *)
(* number of distinct values and the values of the value set of group n    *)
(* of the node the line belongs to, in default and in detail mode.         *)
(***************************************************************************)
C9_GroupLinesFaithful ==
    \A k \in DOMAIN report : \A i \in DOMAIN report[k] :
        LET l == report[k][i] IN
        l.kind = "group" =>
            /\ l.numValues = Cardinality(ValueSet(l.node, l.n))
            /\ l.values = ValueSet(l.node, l.n)

(***************************************************************************)
(* C10: in the report, for every emitted node, a group whose name starts   *)
(* with '_' has no line when showDetail is false and has a line when       *)
(* showDetail is true; every other group has a line in both modes.         *)
(***************************************************************************)
C10_HiddenGroups ==
    pc = "done" =>
        \A n \in DOMAIN nodes : Emitted(n) =>
            \A g \in Range(nodes[n].groupNames) :
                HasLine(n, g) <=> ~(g[1] = "_" /\ ~showDetail)

\* a node with a hidden and a visible group that recorded an event is in
\* the default report, with a line for the visible group only
C10_Witness ==
    /\ pc = "done"
    /\ ~showDetail
    /\ \E n \in Forest :
          /\ matchCount(n) > 0
          /\ Emitted(n)
          /\ \E g, h \in Range(nodes[n].groupNames) :
                g[1] = "_" /\ h[1] # "_" /\ ~HasLine(n, g) /\ HasLine(n, h)


(***************************************************************************)
(* C11.  The header lines of a block of the report name the nodes that     *)
(* were emitted, in the order they were emitted.                           *)
(***************************************************************************)
Suppressed(n) ==
    matchCount(n) = 0 /\ Len(nodes[n].subPatterns) = 0 /\ ~showDetail

RECURSIVE HeaderNodes(_, _)
HeaderNodes(block, i) ==
    IF i > Len(block) THEN <<>>
    ELSE (IF block[i].kind = "pattern" THEN <<block[i].node>> ELSE <<>>)
         \o HeaderNodes(block, i + 1)

NotSuppressed(n) == ~Suppressed(n)

Sentinel == "-None-"

Captured(n, g, e) ==
    LET gd == reMatch(nodes[n].regEx, e.message).groupdict
        v  == CHOOSE w \in {"a", "b", PyNone} : <<g, w>> \in gd
    IN  IF v = PyNone THEN Sentinel ELSE v

GroupsOf(n) == Range(nodes[n].groupNames)

\* the node at which the step records its line, None if it records nowhere
Recorder ==
    IF \E n \in DOMAIN nodes : Len(nodes'[n].events) # Len(nodes[n].events)
    THEN CHOOSE n \in DOMAIN nodes : Len(nodes'[n].events) # Len(nodes[n].events)
    ELSE None

(***************************************************************************)
(* C12: every value set of every node is the set of the distinct values    *)
(* the events recorded at the node captured for the group; and a line      *)
(* recorded at a node that captures, for a group, a value the group's set  *)
(* already holds leaves that set, and so its size, unchanged while the     *)
(* node's matchCount grows by 1.                                           *)
(***************************************************************************)
C12_ValueSetIdempotent ==
    [][ /\ \A n \in DOMAIN nodes : \A g \in GroupsOf(n) :
              ValueSet(n, g)' = {Captured(n, g, e) : e \in Range(nodes'[n].events)}
        /\ LineStep =>
              \A n \in DOMAIN nodes : n = Recorder =>
                 /\ matchCount(n)' = matchCount(n) + 1
                 /\ \A g \in GroupsOf(n) :
                       Captured(n, g, LastFed') \in ValueSet(n, g)
                          => /\ ValueSet(n, g)' = ValueSet(n, g)
                             /\ Cardinality(ValueSet(n, g)') = Cardinality(ValueSet(n, g))
      ]_vars

\* a node that recorded two events with the same capture for a group: the
\* group holds one value
C12_Witness ==
    \E n \in DOMAIN nodes : \E g \in GroupsOf(n) :
        /\ matchCount(n) = 2
        /\ Captured(n, g, nodes[n].events[1]) = Captured(n, g, nodes[n].events[2])
        /\ Cardinality(ValueSet(n, g)) = 1


(***************************************************************************)
(* C13: every file a wildcard argument expands to is opened and read in    *)
(* sequence with the other file arguments and the run reaches the report:  *)
(* the run is never ended by the opening of an entry of files that a       *)
(* wildcard argument produced (only a plain argument that names a missing  *)
(* file can end it), and in a run that has printed the report every entry  *)
(* has been opened.                                                        *)
(***************************************************************************)
C13_GlobExpansion ==
    /\ pc = "openError" => ~files[fileNo + 1].list
    /\ pc = "done" => fileNo = Len(files)


(***************************************************************************)
(* C14: after loading any sequence of pattern definitions no two nodes of  *)
(* the forest have the same id.                                            *)
(***************************************************************************)
C14_UniqueIds ==
    \A m, n \in Forest : m # n => nodes[m].patternId # nodes[n].patternId


(***************************************************************************)
(* C15.  The run has been ended by an exception.                           *)
(***************************************************************************)
Aborted == pc \in {"loadError", "openError"}

NonDecreasing(seq) == \A i, j \in DOMAIN seq : i < j => seq[i] <= seq[j]

(***************************************************************************)
(* C15: every pattern definition is loaded before the first event is       *)
(* matched (once an event has been fed no node is created and the roots    *)
(* stay as they are); a line is read from the entry of files that is open, *)
(* so the events are fed in file-then-line order; the report is printed    *)
(* only when every entry of files has been opened and read, and no line is *)
(* processed after it; and a run in which the configuration fails to load  *)
(* or an entry cannot be opened stops there, with no report, whatever was  *)
(* processed before.                                                       *)
(***************************************************************************)
C15_AllOrNothing ==
    [][ /\ (fed # <<>> \/ LineStep) =>
              /\ pc = "match"
              /\ Len(nodes') = Len(nodes)
              /\ patterns' = patterns
        /\ LineStep =>
              /\ fileNo >= 1 /\ open(files[fileNo])
              /\ fedFile' = Append(fedFile, fileNo)
        /\ NonDecreasing(fedFile')
        /\ pc' = "done" =>
              /\ fileNo' = Len(files')
              /\ \A k \in DOMAIN files : open(files[k])
              /\ Range(fedFile') \subseteq DOMAIN files
        /\ pc = "done" => UNCHANGED vars
        /\ Aborted => UNCHANGED vars
        /\ Aborted' => report' = <<>>
        /\ (pc = "match" /\ fileNo < Len(files) /\ ~open(files[fileNo + 1]))
              => (LineStep \/ pc' = "openError")
      ]_vars

\* the second entry of files cannot be opened after lines of the first were
\* processed: the run has stopped without a report
C15_Witness ==
    /\ pc = "openError"
    /\ fileNo = 1
    /\ Len(files) = 2
    /\ fed # <<>>
    /\ \E n \in Forest : matchCount(n) > 0
    /\ report = <<>>


(***************************************************************************)
(* C16: the reference mainMatchEvent returns for a line is the node at     *)
(* which the line's event was recorded, at every depth, and None exactly   *)
(* when the event was recorded nowhere.                                    *)
(***************************************************************************)
C16_ReturnsRecordingNode ==
    [][ LineStep => lastRet' = Recorder ]_vars


(***************************************************************************)
(* C17: a line that is recorded at a node appends its event to that node's *)
(* events (matchCount grows by 1) and, for each named group of the node's  *)
(* regex, adds to the value set at the group's own position what the       *)
(* event captured for that group, the sentinel "-None-" when the group     *)
(* captured nothing; every other node, and everything else of the          *)
(* recording node, stays as it was.                                        *)
(***************************************************************************)
C17_RecordingStep ==
    [][ LineStep =>
          \A n \in DOMAIN nodes :
             IF n = Recorder
             THEN /\ nodes'[n].events = Append(nodes[n].events, LastFed')
                  /\ matchCount(n)' = matchCount(n) + 1
                  /\ DOMAIN nodes'[n].groupValues = DOMAIN nodes[n].groupNames
                  /\ \A i \in DOMAIN nodes[n].groupNames :
                        nodes'[n].groupValues[i] =
                           nodes[n].groupValues[i]
                              \cup {Captured(n, nodes[n].groupNames[i], LastFed')}
                  /\ [nodes'[n] EXCEPT !.events = <<>>, !.groupValues = <<>>]
                        = [nodes[n] EXCEPT !.events = <<>>, !.groupValues = <<>>]
             ELSE nodes'[n] = nodes[n]
      ]_vars

\* a node has recorded an event that captured a character for one group and
\* nothing for the other, while another node of the forest has recorded none
C17_Witness ==
    \E n, m \in Forest :
        /\ m # n
        /\ matchCount(n) = 1
        /\ matchCount(m) = 0
        /\ nodes[n].regEx = RxHV
        /\ ValueSet(n, <<"_", "h">>) = {"b"}
        /\ ValueSet(n, <<"v">>) = {Sentinel}


(***************************************************************************)
(* C18: in every reachable state every event recorded at a node has a      *)
(* message that the node's regex matches and that the regex of every       *)
(* ancestor of the node matches; so an event whose message matches a       *)
(* child's regex but not its parent's is recorded neither at that child    *)
(* nor below it.                                                           *)
(***************************************************************************)
C18_AncestorsMatch ==
    /\ \A n \in DOMAIN nodes : \A e \in Range(nodes[n].events) :
          /\ Matches(n, e.message)
          /\ AncestorsMatch(n, e.message)
    /\ \A p \in Forest : \A c \in Range(kids(p)) : \A e \in Events :
          (Matches(c, e.message) /\ ~Matches(p, e.message))
             => ~RecordedIn(e, Subtree(c))

\* a child under a root has recorded an event, and an event that the child's
\* regex matches and the root's does not was fed and is recorded nowhere
C18_Witness ==
    \E k \in DOMAIN patterns : \E c \in Range(kids(patterns[k])) :
        /\ matchCount(c) > 0
        /\ \E i \in DOMAIN fed :
              /\ PassesFilter(fed[i])
              /\ Matches(c, fed[i].message)
              /\ ~Matches(patterns[k], fed[i].message)
              /\ ~RecordedIn(fed[i], DOMAIN nodes)


(***************************************************************************)
(* C19: in every reachable state, for every node and every named group of  *)
(* its regex, the group's value set is empty exactly when the node's       *)
(* matchCount is 0 and has at most matchCount elements; and no step        *)
(* lowers a matchCount or takes a value out of a value set.                *)
(***************************************************************************)
C19_CountsAndValueSets ==
    [][ /\ \A n \in DOMAIN nodes' : \A i \in DOMAIN nodes'[n].groupNames :
              /\ (nodes'[n].groupValues[i] = {}) <=> (Len(nodes'[n].events) = 0)
              /\ Cardinality(nodes'[n].groupValues[i]) <= Len(nodes'[n].events)
        /\ \A n \in DOMAIN nodes :
              /\ n \in DOMAIN nodes'
              /\ matchCount(n)' >= matchCount(n)
              /\ \A i \in DOMAIN nodes[n].groupValues :
                    nodes[n].groupValues[i] \subseteq nodes'[n].groupValues[i]
      ]_vars

\* a node with an optional group has recorded two events and its groups hold
\* two values each, while another node with groups has recorded none
C19_Witness ==
    \E n, m \in Forest :
        /\ nodes[n].regEx = RxHV /\ nodes[m].regEx = RxHV
        /\ matchCount(n) = 2
        /\ ValueSet(n, <<"v">>) = {"b", Sentinel}
        /\ matchCount(m) = 0
        /\ ValueSet(m, <<"v">>) = {}


(***************************************************************************)
(* C20.  The nodes below the nodes of S, found by following the children   *)
(* lists k times more (a computation that ends whatever the lists hold).   *)
(***************************************************************************)
RECURSIVE Below(_, _)
Below(S, k) ==
    IF k = 0 THEN S
    ELSE Below(S \cup UNION {Range(kids(p)) : p \in S}, k - 1)

Descendants(n) == Below(Range(kids(n)), Len(nodes))

NoRepeat(seq) == \A i, j \in DOMAIN seq : i # j => seq[i] # seq[j]

WellFormed ==
    /\ NoRepeat(patterns)
    /\ \A p \in DOMAIN nodes : NoRepeat(kids(p))
    /\ \A y \in DOMAIN nodes :
          /\ Cardinality(Holders(y)) <= 1
          /\ y \in Range(patterns) => Holders(y) = {}
          /\ y \notin Descendants(y)
    /\ Range(patterns) \subseteq DOMAIN nodes
    /\ \A p \in DOMAIN nodes : Range(kids(p)) \subseteq DOMAIN nodes

(***************************************************************************)
(* C20: in every reachable state, whatever the definitions loaded, each    *)
(* node occurs at most once in the forest (once among the roots or once in *)
(* one children list), has at most one parent and is not its own           *)
(* descendant; and a line that is processed changes neither the roots nor  *)
(* any node's children list, id or group names.                            *)
(***************************************************************************)
C20_ForestWellFormed ==
    [][ /\ WellFormed'
        /\ LineStep =>
              /\ patterns' = patterns
              /\ Len(nodes') = Len(nodes)
              /\ \A n \in DOMAIN nodes :
                    /\ nodes'[n].subPatterns = nodes[n].subPatterns
                    /\ nodes'[n].patternId = nodes[n].patternId
                    /\ nodes'[n].groupNames = nodes[n].groupNames
      ]_vars

\* a self-parented definition and a definition whose parent is defined after
\* it were left out, two roots carry the same id, and a child has recorded
\* a line
C20_Witness ==
    /\ \E y \in DOMAIN nodes \ Forest : nodes[y].parentId = nodes[y].patternId
    /\ \E y \in DOMAIN nodes \ Forest : \E z \in Forest :
          z > y /\ nodes[y].parentId = nodes[z].patternId
    /\ \E i, j \in DOMAIN patterns :
          /\ i # j
          /\ nodes[patterns[i]].patternId = nodes[patterns[j]].patternId
    /\ \E n \in Forest : Holders(n) # {} /\ matchCount(n) > 0


(***************************************************************************)
(* The state machine.                                                      *)
(***************************************************************************)
Init ==
    /\ nodes = <<>>
    /\ patterns = <<>>
    /\ typeFilter \in {<<>>, <<0>>, <<1>>}
    /\ showDetail \in BOOLEAN
    /\ pc = "load"
    /\ fed = <<>>
    /\ lastRet = None
    /\ report = <<>>
    /\ files \in {myMain(argv) : argv \in ArgLists}
    /\ fileNo = 0
    /\ fedFile = <<>>

\* loadCsvFile: one row of the CSV file
LoadRow(name, regEx, parent) ==
    /\ pc = "load"
    /\ Len(nodes) < MaxDefs
    /\ LET r == init(nodes, patterns, name, regEx, parent) IN
         /\ nodes' = r.nodes
         /\ patterns' = r.patterns
    /\ UNCHANGED <<typeFilter, showDetail, pc, fed, lastRet, report,
                   files, fileNo, fedFile>>

\* loadCsvFile returns at the end of the CSV file; mainLoop goes on to the
\* input files
EndOfCsv ==
    /\ pc = "load"
    /\ pc' = "match"
    /\ UNCHANGED <<nodes, patterns, typeFilter, showDetail, fed, lastRet, report,
                   files, fileNo, fedFile>>

\* Repo() raises: the pattern file cannot be opened, or the next row has a
\* regex that re.compile rejects or lacks a column; the exception ends the run
LoadError ==
    /\ pc = "load"
    /\ pc' = "loadError"
    /\ UNCHANGED <<nodes, patterns, typeFilter, showDetail, fed, lastRet, report,
                   files, fileNo, fedFile>>

\* mainLoop: the file being read (if any) is exhausted and the for loop
\* takes the next entry of files
NextFile ==
    /\ pc = "match"
    /\ fileNo < Len(files)
    /\ LET r == nextFile(files, fileNo) IN
         /\ pc' = r.pc
         /\ fileNo' = r.fileNo
    /\ UNCHANGED <<nodes, patterns, typeFilter, showDetail, fed, lastRet, report,
                   files, fedFile>>

\* mainLoop: one log line of the file being read that parses to the Event e
ProcessLine(e) ==
    /\ pc = "match"
    /\ fileNo >= 1
    /\ Len(fed) < MaxEvents
    /\ LET r == mainMatchEvent(nodes, patterns, typeFilter, e) IN
         /\ nodes' = r.nodes
         /\ lastRet' = r.ret
    /\ fed' = Append(fed, e)
    /\ fedFile' = Append(fedFile, fileNo)
    /\ UNCHANGED <<patterns, typeFilter, showDetail, pc, report, files, fileNo>>

\* mainLoop: the last entry of files is exhausted, EventPattern.printResults()
PrintResults ==
    /\ pc = "match"
    /\ fileNo = Len(files)
    /\ report' = printResults(nodes, patterns, showDetail)
    /\ pc' = "done"
    /\ UNCHANGED <<nodes, patterns, typeFilter, showDetail, fed, lastRet,
                   files, fileNo, fedFile>>

Next ==
    \/ \E name \in Names, regEx \in RegExs, parent \in ParentIds :
          LoadRow(name, regEx, parent)
    \/ LoadError
    \/ EndOfCsv
    \/ NextFile
    \/ \E e \in Events : ProcessLine(e)
    \/ PrintResults

Spec == Init /\ [][Next]_vars

\* the command line without file arguments: myMain reads events.log
NoFileArgs == files = myMain(<<>>)

(***************************************************************************)
(* Loading and matching, for the properties of the matcher: it reads       *)
(* neither showDetail nor the report, so the run stops before the report;  *)
(* nor does it read which file a line comes from, so the lines come from   *)
(* events.log alone.                                                       *)
(***************************************************************************)
InitMatch == Init /\ showDetail = FALSE /\ NoFileArgs

NextMatch ==
    \/ \E name \in Names, regEx \in RegExs, parent \in ParentIds :
          LoadRow(name, regEx, parent)
    \/ EndOfCsv
    \/ NextFile
    \/ \E e \in Events : ProcessLine(e)

SpecMatch == InitMatch /\ [][NextMatch]_vars

(***************************************************************************)
(* The whole run without a type filter, for the properties of the report:  *)
(* the report reads the objects only, and every state of the objects that  *)
(* a filtered run reaches is reached without the filter by a run that is   *)
(* not fed the rejected events.                                            *)
(***************************************************************************)
InitReport == Init /\ typeFilter = <<>> /\ NoFileArgs

SpecReport == InitReport /\ [][Next]_vars

(***************************************************************************)
(* Loading alone, for the properties of tree assembly: three pattern names *)
(* (so that a parent can be found below two levels of other ids), one      *)
(* regex (assembly does not read it), and the run stops before the first   *)
(* log line.                                                               *)
(***************************************************************************)
LoadNames == {"A", "B", "C"}

InitLoad == Init /\ typeFilter = <<>> /\ showDetail = FALSE /\ NoFileArgs

NextLoad ==
    \/ \E name \in LoadNames, parent \in {""} \cup LoadNames :
          LoadRow(name, RxA, parent)
    \/ EndOfCsv

SpecLoad == InitLoad /\ [][NextLoad]_vars

(***************************************************************************)
(* The whole run over every command line of the catalogue, for the         *)
(* properties of the file loop: one pattern name and one regex, with or    *)
(* without a parent.                                                       *)
(***************************************************************************)
InitMain == Init /\ typeFilter = <<>> /\ showDetail = FALSE

NextMain ==
    \/ \E parent \in {"", "A"} : LoadRow("A", RxA, parent)
    \/ LoadError
    \/ EndOfCsv
    \/ NextFile
    \/ \E e \in Events : ProcessLine(e)
    \/ PrintResults

SpecMain == InitMain /\ [][NextMain]_vars

====
